---- MODULE Spec2Model ----
(***************************************************************************)
(* The /now-playing handler of src/server.js: a relay that polls an        *)
(* upstream "currently playing" endpoint and, in stable mode (?stable=1),  *)
(* guards the served state against stale samples and early track switches. *)
(* State: the per-token map lastByToken, the upstream calls in flight      *)
(* (each closure holds access_token, useStable and the server_now it read  *)
(* before issuing the call), the wall clock, the number of upstream calls  *)
(* issued and of callbacks that sent a response, and the last response     *)
(* sent.  Times are epoch milliseconds.  oauth is the last step of the     *)
(* /login - /callback flow of the variant that carries a return path.      *)
(***************************************************************************)
EXTENDS Integers, FiniteSets, Sequences, Bags, TLC

VARIABLES lastByToken, inflight, clock, calls, answered, crashed, resp, ev,
          oauth, upstream

vars == <<lastByToken, inflight, clock, calls, answered, crashed, resp, ev,
          oauth, upstream>>

(* ------------------------------ bounds --------------------------------- *)
\* upstream calls issued over a run
MaxCalls == 2
\* upstream calls outstanding at once: as many as are issued
MaxInflight == MaxCalls
\* clock ticks over a run
MaxTicks == 1

(* ------------------------- program constants --------------------------- *)
StaleToleranceMs == 1000
YoungProgressMs == 1200
NearEndPercent == 92
DefaultStatus == 500

(* ------------------------- values of the model ------------------------- *)
\* milliseconds per clock tick, and the clock reading after k ticks
ClockAt(k) == 100000 + 1500 * k

\* a JS value that is not a number (undefined, a string, ...), and NaN
NotANumber == 0 - 7777777
NaN == 0 - 8888888
Absent == 0 - 1

Tokens == {"A", "B"}
\* req.query.access_token: a token, the empty string, or no parameter
QueryTokens == Tokens \cup {"", "<absent>"}
\* req.query.stable
QueryStable == {"1", "0", "<absent>"}

\* item: null, or an object with id and duration_ms (Absent: no duration_ms)
NullItem == [id |-> 0, duration_ms |-> Absent]
Track(i, d) == [id |-> i, duration_ms |-> d]

NoEntry == [none |-> TRUE]
NoBody == [kind |-> "undefined"]
NoResp == [shape |-> "none"]

ObjBody(it, pl, pr, ts) ==
    [kind |-> "object", item |-> it, is_playing |-> pl, progress_ms |-> pr,
     timestamp |-> ts]

\* the payloads the upstream returns with a 200
Bodies ==
    {ObjBody(Track(1, 200000), TRUE, 100000, 100000),
     ObjBody(Track(1, 200000), TRUE, 182500, 100000),
     ObjBody(Track(1, 200000), FALSE, 182500, 100000)}
    \cup {
          ObjBody(Track(2, 200000), TRUE, 500, 98500),
          ObjBody(Track(2, 200000), TRUE, 500, 99000),
          ObjBody(Track(2, 200000), TRUE, 1200, 99000)}
    \cup {ObjBody(Track(3, d), TRUE, 100000, 100000) : d \in {0, Absent}}
    \cup {ObjBody(Track(1, 200000), TRUE, 0 - 5, 100000),
          ObjBody(NullItem, FALSE, NotANumber, NotANumber),
          [kind |-> "null"], [kind |-> "string"]}

\* what the upstream call hands to the callback: (error, response, body)
Outcomes ==
    {[error |-> TRUE, status |-> Absent, body |-> NoBody]}
    \cup {[error |-> FALSE, status |-> s, body |-> NoBody] : s \in {204, 404}}
    \cup {[error |-> FALSE, status |-> 200, body |-> b] : b \in Bodies}

(* ------------------------- the handler's pieces ------------------------ *)
\* variant: only an absent parameter counts as missing
MissingTokenAbsentOnly(t) == t = "<absent>"

\* !access_token
MissingToken(t) == t \in {"", "<absent>"}

\* variant: stable unless switched off
UseStableUnlessOff(q) == q # "0"

\* req.query.stable === '1'
UseStable(q) == q = "1"

\* variant: no default for a missing response
StatusOfNoDefault(o) == o.status

\* (response && response.statusCode) || 500
StatusOf(o) == IF o.error THEN DefaultStatus ELSE o.status

\* typeof body !== 'object'  (typeof null is 'object')
TypeofObject(b) == b.kind \in {"object", "null"}

\* typeof v === 'number'
IsNumber(v) == v # NotANumber

\* Number(v) || 0
NumberOrZero(v) == IF v = Absent \/ v = NaN \/ v = NotANumber THEN 0 ELSE v

Min(a, b) == IF a <= b THEN a ELSE b

NothingPlaying(server_now, status) ==
    [item |-> NullItem, is_playing |-> FALSE, progress_ms |-> 0,
     timestamp |-> server_now, server_now |-> server_now,
     source_status |-> status]

Sample(body, server_now) ==
    [item |-> body.item,
     is_playing |-> body.is_playing,
     progress_ms |-> IF IsNumber(body.progress_ms) THEN body.progress_ms ELSE 0,
     timestamp |-> IF IsNumber(body.timestamp) THEN body.timestamp ELSE server_now]

\* variant: one process-wide entry, whichever credential wrote it
LastForAnyToken(store, token) ==
    IF token \in DOMAIN store THEN store[token]
    ELSE IF DOMAIN store = {} THEN NoEntry
    ELSE store[CHOOSE t \in DOMAIN store : TRUE]

\* variant: the entry is not looked up
LastForNothing(store, token) == NoEntry

\* lastByToken.get(access_token) || null
LastFor(store, token) ==
    IF token \in DOMAIN store THEN store[token] ELSE NoEntry

\* variant: the tolerance bound taken inclusively
StaleSampleInclusive(last, sample) ==
    /\ last # NoEntry
    /\ sample.timestamp + StaleToleranceMs <= last.timestamp

\* Guard 1: last && sample.timestamp + 1000 < last.timestamp
StaleSample(last, sample) ==
    /\ last # NoEntry
    /\ sample.timestamp + StaleToleranceMs < last.timestamp

PrevDuration(last) == NumberOrZero(last.item.duration_ms)

Elapsed(last, server_now) == server_now - last.accepted_at

\* variant: elapsed time added whether or not the previous track was playing
EstLocalIgnoresPause(last, server_now) ==
    IF PrevDuration(last) # 0
    THEN Min(last.progress_ms + Elapsed(last, server_now), PrevDuration(last))
    ELSE last.progress_ms + Elapsed(last, server_now)

\* last.is_playing ? Math.min(last.progress_ms + elapsed, prevDuration || Infinity)
\*                 : last.progress_ms
EstLocal(last, server_now) ==
    IF last.is_playing
    THEN IF PrevDuration(last) # 0
         THEN Min(last.progress_ms + Elapsed(last, server_now), PrevDuration(last))
         ELSE last.progress_ms + Elapsed(last, server_now)
    ELSE last.progress_ms

\* variant: the 0.92 ratio taken exclusively
NearEndStrict(last, server_now) ==
    /\ PrevDuration(last) > 0
    /\ EstLocal(last, server_now) * 100 > NearEndPercent * PrevDuration(last)

\* prevDuration > 0 && (estLocal / prevDuration) >= 0.92
NearEnd(last, server_now) ==
    /\ PrevDuration(last) > 0
    /\ EstLocal(last, server_now) * 100 >= NearEndPercent * PrevDuration(last)

NewIsYoung(sample) == sample.progress_ms < YoungProgressMs

\* Guard 2
EarlySwitch(last, sample, server_now) ==
    /\ last # NoEntry
    /\ last.item # NullItem
    /\ sample.item # NullItem
    /\ last.item.id # sample.item.id
    /\ ~NearEnd(last, server_now)
    /\ NewIsYoung(sample)

Accepted(sample, server_now) ==
    [item |-> sample.item, is_playing |-> sample.is_playing,
     progress_ms |-> sample.progress_ms, timestamp |-> sample.timestamp,
     server_now |-> server_now, accepted_at |-> server_now,
     source_status |-> 200]

(* ----------------------------- responses ------------------------------- *)
\* res.status(400).json({ error: 'Missing access token' }), after setNoStore
MissingTokenReply ==
    [http |-> 400, shape |-> "error", error |-> "Missing access token",
     no_store |-> TRUE]

\* res.status(200).json(state-shaped object), after setNoStore; a field the
\* object does not carry is Absent / FALSE / ""
StateReply(s, server_now, accepted_at, stale, suppressed, error) ==
    [http |-> 200, shape |-> "state", no_store |-> TRUE,
     item |-> s.item, is_playing |-> s.is_playing,
     progress_ms |-> s.progress_ms, timestamp |-> s.timestamp,
     server_now |-> server_now, source_status |-> s.source_status,
     accepted_at |-> accepted_at, stale_guard |-> stale,
     early_switch_suppressed |-> suppressed, error |-> error]

\* res.status(200).json({ ...body, server_now })
PayloadReply(body, server_now) ==
    [http |-> 200, shape |-> "payload", no_store |-> TRUE, body |-> body,
     server_now |-> server_now]

\* what one run of the request.get callback does: the response it sends, the
\* store it leaves, whether it threw, and (for the record) whether it called
\* lastByToken.get, the value it got, and the branch it returned from
Outcome(reply, store, threw, read, last, branch) ==
    [resp |-> reply, store |-> store, threw |-> threw, read |-> read,
     last |-> last, branch |-> branch]

\* pass-through mode, lines 129-140
PassThrough(r, o, store) ==
    LET now == r.server_now
        np == NothingPlaying(now, StatusOf(o))
    IN  IF o.error
        THEN Outcome(StateReply(np, now, Absent, FALSE, FALSE, ""),
                     store, FALSE, FALSE, NoEntry, "error")
        ELSE IF StatusOf(o) = 204
        THEN Outcome(StateReply(np, now, Absent, FALSE, FALSE, ""),
                     store, FALSE, FALSE, NoEntry, "204")
        ELSE IF StatusOf(o) # 200 \/ ~TypeofObject(o.body)
        THEN Outcome(StateReply(np, now, Absent, FALSE, FALSE, "spotify_non_200"),
                     store, FALSE, FALSE, NoEntry, "non200")
        ELSE Outcome(PayloadReply(o.body, now),
                     store, FALSE, FALSE, NoEntry, "payload")

\* variant: nothingPlaying stored as it is, without accepted_at
NothingEntryAsServed(server_now, status) ==
    [item |-> NullItem, is_playing |-> FALSE, progress_ms |-> 0,
     timestamp |-> server_now, server_now |-> server_now,
     accepted_at |-> Absent, source_status |-> status]

\* the stored entry a 204 writes: { ...nothingPlaying, accepted_at: server_now }
NothingEntry(server_now, status) ==
    [item |-> NullItem, is_playing |-> FALSE, progress_ms |-> 0,
     timestamp |-> server_now, server_now |-> server_now,
     accepted_at |-> server_now, source_status |-> status]

\* variant: only an existing entry is replaced
StoreSetExistingOnly(store, token, entry) ==
    [t \in DOMAIN store |-> IF t = token THEN entry ELSE store[t]]

\* lastByToken.set(access_token, entry)
StoreSet(store, token, entry) ==
    [t \in DOMAIN store \cup {token} |-> IF t = token THEN entry ELSE store[t]]

\* variant: re-serving an entry refreshes its accepted_at
KeepLastTouching(r, last, store, stale) ==
    Outcome(StateReply(last, r.server_now, last.accepted_at, stale, ~stale, ""),
            [store EXCEPT ![r.access_token].accepted_at = r.server_now],
            FALSE, TRUE, last, IF stale THEN "stale" ELSE "suppressed")

\* Guard 1 / Guard 2 return: res.status(200).json({ ...last, server_now, flag })
KeepLast(r, last, store, stale) ==
    Outcome(StateReply(last, r.server_now, last.accepted_at, stale, ~stale, ""),
            store, FALSE, TRUE, last, IF stale THEN "stale" ELSE "suppressed")

\* variant: the accepted sample is served and not stored
AcceptSampleUnstored(r, sample, last, store) ==
    Outcome(StateReply(Accepted(sample, r.server_now), r.server_now,
                       r.server_now, FALSE, FALSE, ""),
            store, FALSE, TRUE, last, "accept")

\* accept: lastByToken.set(access_token, accepted); res.status(200).json(accepted)
AcceptSample(r, sample, last, store) ==
    Outcome(StateReply(Accepted(sample, r.server_now), r.server_now,
                       r.server_now, FALSE, FALSE, ""),
            StoreSet(store, r.access_token, Accepted(sample, r.server_now)),
            FALSE, TRUE, last, "accept")

\* variant: Guard 2 tried before Guard 1
DecideEarlySwitchFirst(r, o, store) ==
    LET now == r.server_now
        sample == Sample(o.body, now)
        last == LastFor(store, r.access_token)
    IN  IF EarlySwitch(last, sample, now)
        THEN KeepLast(r, last, store, FALSE)
        ELSE IF StaleSample(last, sample)
        THEN KeepLast(r, last, store, TRUE)
        ELSE AcceptSample(r, sample, last, store)

\* the guards and the accept path, lines 154-191
Decide(r, o, store) ==
    LET now == r.server_now
        sample == Sample(o.body, now)
        last == LastFor(store, r.access_token)
    IN  IF StaleSample(last, sample)
        THEN KeepLast(r, last, store, TRUE)
        ELSE IF EarlySwitch(last, sample, now)
        THEN KeepLast(r, last, store, FALSE)
        ELSE AcceptSample(r, sample, last, store)

\* stable mode, lines 143-191
Stable(r, o, store) ==
    LET now == r.server_now
        np == NothingPlaying(now, StatusOf(o))
    IN  IF o.error
        THEN Outcome(StateReply(np, now, Absent, FALSE, FALSE, ""),
                     store, FALSE, FALSE, NoEntry, "error")
        ELSE IF StatusOf(o) = 204
        THEN Outcome(StateReply(np, now, Absent, FALSE, FALSE, ""),
                     StoreSet(store, r.access_token,
                              NothingEntry(now, StatusOf(o))),
                     FALSE, FALSE, NoEntry, "204")
        ELSE IF StatusOf(o) # 200 \/ ~TypeofObject(o.body)
        THEN Outcome(StateReply(np, now, Absent, FALSE, FALSE, "spotify_non_200"),
                     store, FALSE, FALSE, NoEntry, "non200")
        ELSE IF o.body.kind = "null"
        \* body.item on null throws a TypeError out of the callback
        THEN Outcome(NoResp, store, TRUE, FALSE, NoEntry, "threw")
        ELSE Decide(r, o, store)

\* the request.get callback, lines 113-192
Callback(r, o, store) ==
    IF ~r.useStable THEN PassThrough(r, o, store) ELSE Stable(r, o, store)

(* ------------------------------ the machine ---------------------------- *)
NoEvent == [kind |-> "none"]
OAuthIdle == [step |-> "idle"]
\* the upstream player reports nothing playing
Silent == [error |-> FALSE, status |-> 204, body |-> NoBody]

Init ==
    /\ lastByToken = [t \in {} |-> NoEntry]
    /\ inflight = EmptyBag
    /\ clock = ClockAt(0)
    /\ calls = 0
    /\ answered = 0
    /\ crashed = FALSE
    /\ resp = NoResp
    /\ ev = NoEvent
    /\ oauth = OAuthIdle
    /\ upstream = Silent

\* Date.now() moves on
Tick ==
    /\ ~crashed
    /\ clock < ClockAt(MaxTicks)
    /\ clock' = clock + (ClockAt(1) - ClockAt(0))
    /\ UNCHANGED <<lastByToken, inflight, calls, answered, crashed, resp, ev,
                   oauth, upstream>>

\* GET /now-playing without a usable access_token, lines 95-99
NowPlayingMissingToken(t, q) ==
    /\ ~crashed
    /\ MissingToken(t)
    /\ resp' = MissingTokenReply
    /\ ev' = [kind |-> "missing", before |-> lastByToken,
              calls_before |-> calls, inflight_before |-> inflight]
    /\ UNCHANGED <<lastByToken, inflight, clock, calls, answered, crashed,
                   oauth, upstream>>

\* what the request.get callback closes over: access_token, useStable and
\* server_now, lines 95-102
Request(t, q, now) ==
    [access_token |-> t, useStable |-> UseStable(q), server_now |-> now]

\* GET /now-playing with a token: read the clock, issue the upstream call,
\* lines 101-113
NowPlayingStart(t, q) ==
    /\ ~crashed
    /\ ~MissingToken(t)
    /\ calls < MaxCalls
    /\ BagCardinality(inflight) < MaxInflight
    /\ inflight' = inflight (+) SetToBag({Request(t, q, clock)})
    /\ calls' = calls + 1
    /\ resp' = NoResp
    /\ ev' = [kind |-> "start", stable |-> q, req |-> Request(t, q, clock)]
    /\ UNCHANGED <<lastByToken, clock, answered, crashed, oauth, upstream>>

\* the upstream call of r ends with outcome o and the callback runs
UpstreamReturns(r, o) ==
    /\ ~crashed
    /\ BagIn(r, inflight)
    /\ LET out == Callback(r, o, lastByToken)
       IN  /\ lastByToken' = out.store
           /\ crashed' = out.threw
           /\ resp' = out.resp
           /\ answered' = IF out.resp = NoResp THEN answered ELSE answered + 1
           /\ ev' = [kind |-> "poll", req |-> r, outcome |-> o,
                     before |-> lastByToken, read |-> out.read,
                     last |-> out.last, branch |-> out.branch]
    /\ inflight' = inflight (-) SetToBag({r})
    /\ UNCHANGED <<clock, calls, oauth, upstream>>

Next ==
    \/ Tick
    \/ \E t \in QueryTokens, q \in QueryStable : NowPlayingMissingToken(t, q)
    \/ \E t \in QueryTokens, q \in QueryStable : NowPlayingStart(t, q)
    \/ \E r \in BagToSet(inflight), o \in Outcomes : UpstreamReturns(r, o)

Spec == Init /\ [][Next]_vars

\* the ranges of Spec's variables
TypeOK ==
    /\ clock \in {ClockAt(k) : k \in 0..MaxTicks}
    /\ calls \in 0..MaxCalls
    /\ answered \in 0..calls
    /\ BagCardinality(inflight) <= MaxInflight
    /\ crashed \in BOOLEAN

(* -------------------- reading the last handler step -------------------- *)
\* ev describes the handler step that led to the current state: for a
\* completed poll, the closure r, the upstream outcome, and the store as it
\* was when the callback began.
EvPoll == ev.kind = "poll"
EvToken == ev.req.access_token
EvNow == ev.req.server_now
EntryOf(store, t) == IF t \in DOMAIN store THEN store[t] ELSE NoEntry
EvPrev == EntryOf(ev.before, EvToken)
EvStored == EntryOf(lastByToken, EvToken)

\* a stable-mode poll whose upstream result is 200 with an object payload
EvStable200 ==
    /\ EvPoll
    /\ ev.req.useStable
    /\ ~ev.outcome.error
    /\ ev.outcome.status = 200
    /\ ev.outcome.body.kind = "object"

\* the sample's fields as the specification defines them
EvSampleTs ==
    IF ev.outcome.body.timestamp = NotANumber THEN EvNow
    ELSE ev.outcome.body.timestamp
EvSampleProgress ==
    IF ev.outcome.body.progress_ms = NotANumber THEN 0
    ELSE ev.outcome.body.progress_ms

EvPassesStaleGuard ==
    EvPrev = NoEntry \/ ~(EvSampleTs + 1000 < EvPrev.timestamp)

\* previous and sample both carry a track and the ids differ
EvDifferentTrack ==
    /\ EvPrev # NoEntry
    /\ EvPrev.item # NullItem
    /\ ev.outcome.body.item # NullItem
    /\ EvPrev.item.id # ev.outcome.body.item.id

EvPrevDuration ==
    IF EvPrev.item.duration_ms = Absent THEN 0 ELSE EvPrev.item.duration_ms
EvEstimatedLocalProgress ==
    IF EvPrev.is_playing
    THEN Min(EvPrev.progress_ms + (EvNow - EvPrev.accepted_at), EvPrevDuration)
    ELSE EvPrev.progress_ms
\* duration > 0 and estimatedLocalProgress / duration >= 0.92
EvPrevNearEnd ==
    /\ EvPrevDuration > 0
    /\ EvEstimatedLocalProgress * 100 >= 92 * EvPrevDuration

\* the response re-serves the entry e
Reserves(e) ==
    /\ resp.shape = "state"
    /\ resp.http = 200
    /\ resp.item = e.item
    /\ resp.is_playing = e.is_playing
    /\ resp.progress_ms = e.progress_ms
    /\ resp.timestamp = e.timestamp
    /\ resp.source_status = e.source_status

(* ------------------------------- claims -------------------------------- *)
\* C1: stale rejection. A stable-mode 200 poll with an object payload whose
\* sample.timestamp + 1000 < previous.timestamp re-serves the previous
\* state's item, is_playing, progress_ms and timestamp with stale_guard =
\* true and leaves the credential's stored state unchanged; a sample exactly
\* 1000 ms behind is not rejected by the stale guard.
C1_StaleRejection ==
    (EvStable200 /\ EvPrev # NoEntry) =>
        /\ (EvSampleTs + 1000 < EvPrev.timestamp) =>
              /\ Reserves(EvPrev)
              /\ resp.stale_guard = TRUE
              /\ EvStored = EvPrev
        /\ (EvSampleTs + 1000 = EvPrev.timestamp) =>
              /\ resp.shape = "state"
              /\ resp.stale_guard = FALSE

\* previous.timestamp = 100000, sample.timestamp = 98500: rejected as stale
C1_Witness ==
    /\ EvStable200
    /\ EvPrev # NoEntry
    /\ EvPrev.timestamp = 100000
    /\ EvSampleTs = 98500
    /\ resp.shape = "state"
    /\ resp.stale_guard = TRUE

\* C2: suppression triggered. A stable-mode 200 poll that passes the stale
\* guard, names a different track than the previous accepted state, finds the
\* previous track not near its end and has sample.progress_ms < 1200 re-serves
\* the previous state with early_switch_suppressed = true and does not write
\* the store.
C2_SuppressionTriggered ==
    (/\ EvStable200
     /\ EvPassesStaleGuard
     /\ EvDifferentTrack
     /\ ~EvPrevNearEnd
     /\ EvSampleProgress < 1200) =>
        /\ Reserves(EvPrev)
        /\ resp.early_switch_suppressed = TRUE
        /\ resp.stale_guard = FALSE
        /\ lastByToken = ev.before

\* previous at 100000 of 200000 ms playing, new track at 500 ms, no time
\* elapsed: suppressed
C2_Witness ==
    /\ EvStable200
    /\ EvDifferentTrack
    /\ EvPrev.is_playing
    /\ EvPrev.progress_ms = 100000
    /\ EvPrev.item.duration_ms = 200000
    /\ EvNow = EvPrev.accepted_at
    /\ EvSampleProgress = 500
    /\ resp.early_switch_suppressed = TRUE

\* C3: suppression boundary. A stable-mode 200 poll that passes the stale
\* guard and names a different track than the previous accepted state is
\* accepted when the previous track is near its end (duration > 0 and ratio
\* >= 0.92, inclusive) or when sample.progress_ms >= 1200 (inclusive): the
\* sample becomes the stored state and is returned without
\* early_switch_suppressed.
C3_SuppressionBoundary ==
    (/\ EvStable200
     /\ EvPassesStaleGuard
     /\ EvDifferentTrack
     /\ (EvPrevNearEnd \/ EvSampleProgress >= 1200)) =>
        /\ EvStored # NoEntry
        /\ EvStored.item = ev.outcome.body.item
        /\ EvStored.is_playing = ev.outcome.body.is_playing
        /\ EvStored.progress_ms = EvSampleProgress
        /\ EvStored.timestamp = EvSampleTs
        /\ Reserves(EvStored)
        /\ resp.early_switch_suppressed = FALSE
        /\ resp.stale_guard = FALSE

\* a young sample of another track is accepted because the previous track,
\* playing, has reached exactly 92% of its duration by the handler's clock
C3_Witness ==
    /\ EvStable200
    /\ EvDifferentTrack
    /\ EvPrev.is_playing
    /\ EvEstimatedLocalProgress * 100 = 92 * EvPrevDuration
    /\ EvSampleProgress < 1200
    /\ EvStored.item = ev.outcome.body.item
    /\ resp.early_switch_suppressed = FALSE

\* the last handler step wrote the credential's entry: a stable-mode poll
\* that returned from the 204 branch or from the accept path
EvWrote ==
    /\ EvPoll
    /\ ev.req.useStable
    /\ ev.branch \in {"accept", "204"}

\* C4: monotonic acceptance under jitter. For every two states s1, s2 written
\* to the store consecutively for one credential (204 writes and overlapping
\* polls included), s2.timestamp + 1000 >= s1.timestamp.
C4_MonotonicAcceptance ==
    (EvWrote /\ EvPrev # NoEntry) =>
        EvStored.timestamp + 1000 >= EvPrev.timestamp

\* C5: accepted_at is non-decreasing across successive writes to the store
\* for the same credential, for every interleaving of polls.
C5_AcceptedAtNonDecreasing ==
    (EvWrote /\ EvPrev # NoEntry) =>
        EvStored.accepted_at >= EvPrev.accepted_at

\* C6: no lost update. The state a stable-mode poll decides against is the
\* credential's entry as it stands when the callback runs (the state left by
\* whichever poll completed before it), the store it leaves differs from that
\* store at most in the credential's entry, and while the process lives the
\* callback of every poll in flight can run whatever else is in flight.
C6_AtomicReadModifyWrite ==
    /\ (EvPoll /\ ev.read) =>
          /\ ev.req.useStable
          /\ ev.last = EvPrev
          /\ \A t \in Tokens \ {EvToken} :
                EntryOf(lastByToken, t) = EntryOf(ev.before, t)
          /\ (ev.branch = "accept") =>
                /\ EvStored.accepted_at = EvNow
                /\ EvStored.timestamp = EvSampleTs
          /\ (ev.branch # "accept") => lastByToken = ev.before
    /\ ~crashed =>
          \A r \in BagToSet(inflight) :
             ENABLED (\E o \in Outcomes : UpstreamReturns(r, o))

\* two stable-mode polls of one credential overlap and both write: this one
\* read the clock before the other did, completed after it, and decided against
\* the entry the other left
C6_Witness ==
    /\ EvPoll
    /\ ev.req.useStable
    /\ ev.branch = "accept"
    /\ ev.last # NoEntry
    /\ ev.last.source_status = 200
    /\ EvNow < ev.last.accepted_at
    /\ EvStored # ev.last

\* C7: only the accept path writes the store. A stable-mode poll answered
\* with stale_guard or early_switch_suppressed leaves the whole store
\* unchanged and its response carries the stored entry's item, is_playing,
\* progress_ms, timestamp and source_status (and accepted_at) verbatim, with
\* exactly one annotation flag; the store changes only when a stable-mode
\* poll is answered with neither flag after a 204 or a 200 object payload.
C7_OnlyAcceptWrites ==
    EvPoll =>
        /\ (resp.shape = "state" /\
            (resp.stale_guard \/ resp.early_switch_suppressed)) =>
              /\ ev.req.useStable
              /\ lastByToken = ev.before
              /\ EvStored # NoEntry
              /\ Reserves(EvStored)
              /\ resp.accepted_at = EvStored.accepted_at
              /\ resp.server_now = EvNow
              /\ resp.error = ""
              /\ ~(resp.stale_guard /\ resp.early_switch_suppressed)
        /\ (lastByToken # ev.before) =>
              /\ ev.req.useStable
              /\ ~ev.outcome.error
              /\ \/ ev.outcome.status = 204
                 \/ ev.outcome.status = 200 /\ ev.outcome.body.kind = "object"
              /\ resp.shape = "state"
              /\ ~resp.stale_guard
              /\ ~resp.early_switch_suppressed

\* a suppressed switch served after the clock has moved on since the entry
\* was accepted
C7_Witness ==
    /\ EvStable200
    /\ resp.shape = "state"
    /\ resp.early_switch_suppressed
    /\ EvPrev # NoEntry
    /\ EvNow > EvPrev.accepted_at
    /\ EvStored.accepted_at = EvPrev.accepted_at

\* C8: pass-through bypass. A poll whose stable parameter is not exactly '1'
\* runs in pass-through mode; it never reads or writes the store, whatever the
\* upstream outcome and whatever the store holds; its response carries no
\* stale or suppression flag, and a 200 with an object payload is returned as
\* that payload plus server_now.
C8_PassThroughBypass ==
    /\ (ev.kind = "start") =>
          /\ BagIn(ev.req, inflight)
          /\ ev.req.useStable <=> (ev.stable = "1")
    /\ (EvPoll /\ ~ev.req.useStable) =>
          /\ ~ev.read
          /\ lastByToken = ev.before
          /\ resp.http = 200
          /\ resp.shape \in {"state", "payload"}
          /\ resp.shape = "state" =>
                ~resp.stale_guard /\ ~resp.early_switch_suppressed
          /\ (~ev.outcome.error /\ ev.outcome.status = 200
                /\ ev.outcome.body.kind = "object") =>
                /\ resp.shape = "payload"
                /\ resp.body = ev.outcome.body
                /\ resp.server_now = EvNow

\* a pass-through poll returns a young sample of another track verbatim while
\* the store holds a playing track far from its end for the same credential
C8_Witness ==
    /\ EvPoll
    /\ ~ev.req.useStable
    /\ ev.outcome.status = 200
    /\ ev.outcome.body.kind = "object"
    /\ EvDifferentTrack
    /\ ~EvPrevNearEnd
    /\ EvSampleProgress < 1200
    /\ resp.shape = "payload"
    /\ resp.body.item.id = 2
    /\ EvStored = EvPrev

\* C9: missing-token guard. A request with an absent or empty access_token
\* gets status 400 with {error: 'Missing access token'}, issues no upstream
\* call and leaves the store unchanged; no upstream call in flight carries an
\* absent or empty token.
C9_MissingTokenGuard ==
    /\ (ev.kind = "missing") =>
          /\ resp.http = 400
          /\ resp.shape = "error"
          /\ resp.error = "Missing access token"
          /\ calls = ev.calls_before
          /\ inflight = ev.inflight_before
          /\ lastByToken = ev.before
    /\ \A r \in BagToSet(inflight) : r.access_token \notin {"", "<absent>"}
    /\ DOMAIN lastByToken \subseteq Tokens

\* a token-less request is refused while the store holds an entry and an
\* upstream call of another request is in flight
C9_Witness ==
    /\ ev.kind = "missing"
    /\ resp.http = 400
    /\ DOMAIN lastByToken # {}
    /\ BagCardinality(inflight) > 0

\* the store with every credential's entry but t's removed
OnlyEntryOf(store, t) == [u \in DOMAIN store \cap {t} |-> store[u]]

\* C10: credential isolation. A poll for credential A leaves the entry of
\* every credential B # A as it was, and its response and the entry it leaves
\* for A are what they would be were nothing stored for any other credential.
C10_CredentialIsolation ==
    EvPoll =>
        /\ \A b \in Tokens \ {EvToken} :
              EntryOf(lastByToken, b) = EntryOf(ev.before, b)
        /\ resp = Callback(ev.req, ev.outcome,
                           OnlyEntryOf(ev.before, EvToken)).resp
        /\ EvStored =
              EntryOf(Callback(ev.req, ev.outcome,
                               OnlyEntryOf(ev.before, EvToken)).store, EvToken)

\* a stable-mode poll for a credential with no entry accepts a young sample
\* of track 2 while another credential's entry holds track 1 far from its end
C10_Witness ==
    /\ EvStable200
    /\ EvPrev = NoEntry
    /\ ev.outcome.body.item # NullItem
    /\ ev.outcome.body.item.id = 2
    /\ EvSampleProgress < 1200
    /\ EvStored # NoEntry
    /\ EvStored.item.id = 2
    /\ \E b \in DOMAIN ev.before :
          /\ b # EvToken
          /\ ev.before[b].item # NullItem
          /\ ev.before[b].item.id = 1
          /\ ev.before[b].progress_ms = 100000
          /\ lastByToken[b] = ev.before[b]

\* the empty sample: item null, is_playing false, progress_ms 0
EmptySampleReply ==
    /\ resp.shape = "state"
    /\ resp.http = 200
    /\ resp.item = NullItem
    /\ resp.is_playing = FALSE
    /\ resp.progress_ms = 0
    /\ resp.timestamp = EvNow
    /\ resp.server_now = EvNow

\* C11: every /now-playing request that carries an access token is answered
\* with HTTP status 200 for every upstream outcome, in both modes; the only
\* non-200 status the endpoint produces is the 400 for a missing token.
C11_AlwaysStatus200 ==
    /\ EvPoll => (resp.shape # "none" /\ resp.http = 200)
    /\ (resp.shape # "none" /\ resp.http # 200) =>
          (ev.kind = "missing" /\ resp.http = 400)

\* C13: a status-200 response whose payload is malformed or absent
\* (undefined, a string, null, any non-record value) is answered 200 with the
\* empty sample and an error marker, the store is not written and the handler
\* does not throw, in both stable and pass-through mode.
C13_MalformedPayload ==
    (/\ EvPoll
     /\ ~ev.outcome.error
     /\ ev.outcome.status = 200
     /\ ev.outcome.body.kind # "object") =>
        /\ ~crashed
        /\ EmptySampleReply
        /\ resp.error # ""
        /\ lastByToken = ev.before

\* C12: no request is left hanging and none is answered twice. Every
\* upstream call issued is either still in flight or its callback has sent
\* exactly one response; a completed callback and a token-less request have
\* each sent a response.
C12_ExactlyOneResponse ==
    /\ calls = BagCardinality(inflight) + answered
    /\ EvPoll => resp.shape # "none"
    /\ ev.kind = "missing" => resp.shape # "none"

\* C14: a transport failure or an upstream status other than 200/204 is
\* answered with item null, is_playing false, progress_ms 0 and a diagnostic
\* marker (source_status 500 for a transport failure; the original status and
\* error 'spotify_non_200' for a non-success status), and the store is left
\* exactly as it was.
C14_FailureLeavesStore ==
    (EvPoll /\ (ev.outcome.error \/ ev.outcome.status \notin {200, 204})) =>
        /\ EmptySampleReply
        /\ ~resp.stale_guard
        /\ ~resp.early_switch_suppressed
        /\ ev.outcome.error =>
              resp.source_status = 500
        /\ ~ev.outcome.error =>
              /\ resp.source_status = ev.outcome.status
              /\ resp.error = "spotify_non_200"
        /\ lastByToken = ev.before
        /\ ~ev.read
        /\ ~crashed

\* a stable-mode poll fails in transport while the store holds a track for
\* the credential, and the entry stays
C14_Witness ==
    /\ EvPoll
    /\ ev.req.useStable
    /\ ev.outcome.error
    /\ EvPrev # NoEntry
    /\ EvPrev.item # NullItem
    /\ EvStored = EvPrev
    /\ resp.shape = "state"
    /\ resp.item = NullItem

\* C15: a 204 in stable mode is recorded like an accepted sample: whatever
\* was stored, the credential's entry becomes the empty state (item null,
\* is_playing false, progress_ms 0, source_status 204) with accepted_at set;
\* and a 200 sample decided against such an entry is never answered with
\* early_switch_suppressed.
C15_NoContentRecorded ==
    /\ (EvPoll /\ ev.req.useStable /\ ~ev.outcome.error
          /\ ev.outcome.status = 204) =>
          /\ EvStored # NoEntry
          /\ EvStored.item = NullItem
          /\ EvStored.is_playing = FALSE
          /\ EvStored.progress_ms = 0
          /\ EvStored.source_status = 204
          /\ EvStored.accepted_at = EvNow
          /\ EvStored.timestamp = EvNow
          /\ EmptySampleReply
          /\ resp.source_status = 204
    /\ (EvStable200 /\ EvPrev # NoEntry /\ EvPrev.source_status = 204) =>
          /\ EvPrev.item = NullItem
          /\ resp.shape = "state"
          /\ ~resp.early_switch_suppressed

\* a young sample of a track is accepted over an entry written by a 204
C15_Witness ==
    /\ EvStable200
    /\ EvPrev # NoEntry
    /\ EvPrev.source_status = 204
    /\ ev.outcome.body.item # NullItem
    /\ EvSampleProgress < 1200
    /\ EvStored.item = ev.outcome.body.item
    /\ ~resp.early_switch_suppressed
    /\ ~resp.stale_guard

\* a 204 replaces a stored track by the empty state
C15_Overwrite ==
    /\ EvPoll
    /\ ev.req.useStable
    /\ ev.outcome.status = 204
    /\ EvPrev # NoEntry
    /\ EvPrev.item # NullItem
    /\ EvStored.item = NullItem

\* the upstream response is usable: a 204, or a 200 with an object payload
EvUsable ==
    /\ EvPoll
    /\ ~ev.outcome.error
    /\ \/ ev.outcome.status = 204
       \/ ev.outcome.status = 200 /\ ev.outcome.body.kind = "object"

\* no handler step removes an entry from the store
EvKeepsEntries ==
    (ev.kind \in {"poll", "missing"}) =>
        DOMAIN ev.before \subseteq DOMAIN lastByToken

\* C16 as stated: a credential has no entry until its first poll with a
\* usable upstream response, that poll always creates the entry, and an entry
\* once created stays.
C16_LifecycleAnyMode ==
    /\ (EvPoll /\ EvPrev = NoEntry /\ EvStored # NoEntry) => EvUsable
    /\ (EvUsable /\ EvPrev = NoEntry) => EvStored # NoEntry
    /\ EvKeepsEntries

\* C16 (amended): a credential has no entry until its first stable-mode poll
\* with a usable upstream response (204, or 200 with an object payload); that
\* poll always creates the entry, a 200 sample being accepted whatever its
\* timestamp and progress; pass-through polls create none; and an entry once
\* created is there in every later state.
C16_Lifecycle ==
    /\ (EvPoll /\ EvPrev = NoEntry /\ EvStored # NoEntry) =>
          (EvUsable /\ ev.req.useStable)
    /\ (EvUsable /\ ev.req.useStable /\ EvPrev = NoEntry) =>
          /\ EvStored # NoEntry
          /\ resp.shape = "state"
          /\ ~resp.stale_guard
          /\ ~resp.early_switch_suppressed
          /\ ev.outcome.status = 200 =>
                /\ EvStored.item = ev.outcome.body.item
                /\ EvStored.progress_ms = EvSampleProgress
                /\ EvStored.timestamp = EvSampleTs
                /\ EvStored.source_status = 200
          /\ ev.outcome.status = 204 => EvStored.source_status = 204
    /\ (EvPoll /\ ~ev.req.useStable) => DOMAIN lastByToken = DOMAIN ev.before
    /\ EvKeepsEntries
    /\ DOMAIN lastByToken \subseteq Tokens

\* the first stable-mode poll of a credential creates its entry from a young
\* sample with an old timestamp, after a pass-through poll with a usable
\* response created none
C16_Witness ==
    /\ EvStable200
    /\ EvPrev = NoEntry
    /\ calls = 2
    /\ EvSampleProgress < 1200
    /\ EvSampleTs = 98500
    /\ EvStored # NoEntry
    /\ EvStored.timestamp = 98500

\* C17: when the previous accepted track has duration_ms 0 or absent,
\* nearEnd is never true for it, and a sample that passes the stale guard,
\* names a different track and has progress_ms < 1200 is accepted, never
\* suppressed.
C17_DurationlessNeverSuppressed ==
    (/\ EvStable200
     /\ EvPrev # NoEntry
     /\ EvPrev.item # NullItem
     /\ EvPrevDuration = 0) =>
        /\ ~NearEnd(EvPrev, EvNow)
        /\ (/\ EvPassesStaleGuard
            /\ EvDifferentTrack
            /\ EvSampleProgress \in 0 .. 1199) =>
              /\ ~resp.early_switch_suppressed
              /\ EvStored.item = ev.outcome.body.item

\* C18: an upstream progress_ms that is a negative number is treated as 0, so
\* the sample handed to the guards, every stored state and every stable-mode
\* response has progress_ms >= 0.
C18_ProgressNonNegative ==
    /\ EvStable200 => Sample(ev.outcome.body, EvNow).progress_ms >= 0
    /\ \A t \in DOMAIN lastByToken : lastByToken[t].progress_ms >= 0
    /\ (EvPoll /\ ev.req.useStable /\ resp.shape = "state") =>
          resp.progress_ms >= 0

\* the upstream result is a 204, a non-200 status or a malformed 200 payload
EvEmptyClass ==
    /\ EvPoll
    /\ ~ev.outcome.error
    /\ \/ ev.outcome.status # 200
       \/ ev.outcome.body.kind # "object"

\* the payload contents a second run of the same class can carry
EvOtherPayloads ==
    IF ev.outcome.status = 200
    THEN {b \in Bodies \cup {NoBody} : b.kind # "object"}
    ELSE Bodies \cup {NoBody}

\* C19: for a 204, a non-200 status or a malformed 200 payload the response
\* carries the empty playback fields (item null, is_playing false,
\* progress_ms 0, timestamp = the handler's clock reading), and a run of the
\* same request on the same store that differs only in the payload contents
\* gives the same response and the same store effect.
C19_EmptyStateIdempotent ==
    EvEmptyClass =>
        /\ EmptySampleReply
        /\ \A b \in EvOtherPayloads :
              LET other == Callback(ev.req, [ev.outcome EXCEPT !.body = b],
                                    ev.before)
              IN  /\ other.resp = resp
                  /\ other.store = lastByToken
                  /\ other.threw = crashed

(* ------------- the OAuth routes of src/unnamed/part_001 ---------------- *)
\* longest return path and state string enumerated
MaxLen == 3

\* the characters of the enumerated strings: a slash, a letter, the colon of
\* a scheme and a blank
Chars == {"/", "h", ":", " "}
WhiteSpace == {" "}
Strings == UNION {[1 .. n -> Chars] : n \in 0 .. MaxLen}

\* JavaScript values
Undefined == [type |-> "undefined"]
JsNull == [type |-> "null"]
JsArray == [type |-> "array"]
JsNumber(n) == [type |-> "number", n |-> n]
Str(s) == [type |-> "string", chars |-> s]
JsObject(ret) == [type |-> "object", ret |-> ret]

\* '/spotify-overlay'
Fallback ==
    Str(<<"/", "s", "p", "o", "t", "i", "f", "y", "-",
          "o", "v", "e", "r", "l", "a", "y">>)

TypeofString(v) == v.type = "string"

\* ToBoolean
Truthy(v) ==
    CASE v.type \in {"undefined", "null"} -> FALSE
      [] v.type = "number" -> v.n # 0
      [] v.type = "string" -> v.chars # <<>>
      [] OTHER -> TRUE

\* a || b and a && b
JsOr(a, b) == IF Truthy(a) THEN a ELSE b
JsAnd(a, b) == IF Truthy(a) THEN b ELSE a

\* v.ret, v not null or undefined
GetRet(v) == IF v.type = "object" THEN v.ret ELSE Undefined

RECURSIVE TrimStart(_)
TrimStart(s) ==
    IF s # <<>> /\ Head(s) \in WhiteSpace THEN TrimStart(Tail(s)) ELSE s
RECURSIVE TrimEnd(_)
TrimEnd(s) ==
    IF s # <<>> /\ s[Len(s)] \in WhiteSpace
    THEN TrimEnd(SubSeq(s, 1, Len(s) - 1))
    ELSE s
\* String.prototype.trim
Trim(s) == TrimEnd(TrimStart(s))

\* String.prototype.startsWith
StartsWith(s, prefix) ==
    /\ Len(s) >= Len(prefix)
    /\ SubSeq(s, 1, Len(prefix)) = prefix

\* variant: the protocol-relative test left out
sanitizeReturnPathSlashOnly(ret) ==
    IF ~TypeofString(ret) \/ Trim(ret.chars) = <<>> THEN Fallback
    ELSE IF ~StartsWith(ret.chars, <<"/">>) THEN Fallback
    ELSE ret

\* function sanitizeReturnPath(ret)
sanitizeReturnPath(ret) ==
    IF ~TypeofString(ret) \/ Trim(ret.chars) = <<>> THEN Fallback
    ELSE IF ~StartsWith(ret.chars, <<"/">>) THEN Fallback
    ELSE IF StartsWith(ret.chars, <<"/", "/">>) THEN Fallback
    ELSE ret

\* req.query.return: absent, a string, or an array for a repeated parameter
QueryReturn == {Undefined, JsArray} \cup {Str(s) : s \in Strings}

\* the values a JSON text denotes; an object is kept by its ret property
RetValues ==
    {Undefined, JsNull, JsArray, JsNumber(0), JsNumber(5), JsObject(Undefined)}
    \cup {Str(s) : s \in Strings}
JsonValues ==
    {JsNull, JsArray, JsNumber(0), JsNumber(5)}
    \cup {Str(s) : s \in Strings}
    \cup {JsObject(w) : w \in RetValues}

\* JSON.stringify(v): the text that denotes v
JSONStringify(v) == [type |-> "string", text |-> "json", value |-> v]
\* JSON.parse(t): the value denoted, or a SyntaxError
JSONParse(t) ==
    IF t.text = "json" THEN [threw |-> FALSE, value |-> t.value]
    ELSE [threw |-> TRUE]

\* req.query.state: absent, the empty string, a string that is not JSON, or
\* a JSON text
QueryState ==
    {Undefined,
     [type |-> "string", text |-> "empty"],
     [type |-> "string", text |-> "invalid"]}
    \cup {JSONStringify(v) : v \in JsonValues}

StateGiven(st) == st.type = "string" /\ st.text # "empty"

\* the argument /callback passes to sanitizeReturnPath: parsed && parsed.ret
CallbackArg(st) ==
    JsAnd(JSONParse(st).value, GetRet(JSONParse(st).value))

\* retPath as the try/catch of /callback leaves it
RetPath(st) ==
    IF ~StateGiven(st) THEN Fallback
    ELSE IF JSONParse(st).threw THEN Fallback
    ELSE sanitizeReturnPath(CallbackArg(st))

\* `${frontend_uri}${retPath}?${q}`
Redirect(retPath, ok) ==
    [origin |-> "frontend_uri", path |-> retPath,
     query |-> IF ok THEN "tokens" ELSE "error=invalid_token"]

\* GET /login?return=q
Login(q) ==
    /\ oauth.step # "exchange"
    /\ LET arg == JsOr(q, Fallback)
           ret == sanitizeReturnPath(arg)
       IN  oauth' = [step |-> "login", sanitized |-> TRUE, arg |-> arg,
                     ret |-> ret,
                     state |-> JSONStringify(JsObject(ret))]
    /\ UNCHANGED <<lastByToken, inflight, clock, calls, answered, crashed,
                   resp, ev, upstream>>

\* GET /callback?state=st up to the token request
OAuthCallback(st) ==
    /\ oauth.step # "exchange"
    /\ LET parsed == StateGiven(st) /\ ~JSONParse(st).threw
       IN  oauth' = [step |-> "exchange", sanitized |-> parsed,
                     arg |-> IF parsed THEN CallbackArg(st) ELSE Undefined,
                     ret |-> RetPath(st),
                     state |-> st]
    /\ UNCHANGED <<lastByToken, inflight, clock, calls, answered, crashed,
                   resp, ev, upstream>>

\* the request.post callback of /callback
TokenReturns(ok) ==
    /\ oauth.step = "exchange"
    /\ oauth' = [step |-> "redirected", sanitized |-> oauth.sanitized,
                 arg |-> oauth.arg, ret |-> oauth.ret, state |-> oauth.state,
                 location |-> Redirect(oauth.ret, ok)]
    /\ UNCHANGED <<lastByToken, inflight, clock, calls, answered, crashed,
                   resp, ev, upstream>>

ReturnNext ==
    \/ \E q \in QueryReturn : Login(q)
    \/ \E st \in QueryState : OAuthCallback(st)
    \/ \E ok \in BOOLEAN : TokenReturns(ok)

ReturnSpec == Init /\ [][ReturnNext]_vars

\* a string of blanks only
Blank(s) == \A i \in 1 .. Len(s) : s[i] = " "

\* y is what the return-path rule allows for the input x
SanitizedFrom(x, y) ==
    /\ y = x \/ y = Fallback
    /\ y.type = "string"
    /\ Len(y.chars) >= 1
    /\ y.chars[1] = "/"
    /\ Len(y.chars) >= 2 => y.chars[2] # "/"
    /\ (\/ x.type # "string"
        \/ x.chars = <<>>
        \/ Blank(x.chars)
        \/ x.chars[1] # "/"
        \/ Len(x.chars) >= 2 /\ x.chars[2] = "/") => y = Fallback
    /\ sanitizeReturnPath(y) = y

\* C20: sanitizeReturnPath returns its input or the fallback; the result
\* starts with one "/" and never with "//"; a non-string, empty, blank,
\* absolute-URL or protocol-relative input gives the fallback; sanitizing the
\* result again changes nothing; and the path of the /callback redirect is
\* such a value also when the state parameter is missing or not JSON.
C20_ReturnPathSanitized ==
    /\ (oauth.step # "idle" /\ oauth.sanitized) =>
          SanitizedFrom(oauth.arg, oauth.ret)
    /\ (oauth.step # "idle" /\ ~oauth.sanitized) => oauth.ret = Fallback
    /\ oauth.step # "idle" => SanitizedFrom(oauth.ret, oauth.ret)
    /\ oauth.step = "redirected" => oauth.location.path = oauth.ret

\* the redirect of a /callback whose state carried a protocol-relative path
C20_Witness ==
    /\ oauth.step = "redirected"
    /\ oauth.sanitized
    /\ oauth.arg = Str(<<"/", "/", "h">>)
    /\ oauth.location.path = Fallback

\* the sample is a young switch: a different track with progress < 1200
EvYoungSwitch == EvDifferentTrack /\ EvSampleProgress < 1200

\* C21: a stable-mode 200 sample that is more than 1000 ms behind the
\* previous timestamp and also a young switch to a different track is
\* answered with stale_guard only and the previous state; no response
\* carries both flags; a response to an accepted sample carries neither.
C21_GuardPrecedence ==
    /\ (EvStable200 /\ ~EvPassesStaleGuard /\ EvYoungSwitch) =>
          /\ Reserves(EvPrev)
          /\ resp.stale_guard
          /\ ~resp.early_switch_suppressed
          /\ lastByToken = ev.before
    /\ resp.shape = "state" =>
          ~(resp.stale_guard /\ resp.early_switch_suppressed)
    /\ (/\ EvStable200
        /\ EvPassesStaleGuard
        /\ ~(EvYoungSwitch /\ ~EvPrevNearEnd)) =>
          /\ resp.shape = "state"
          /\ ~resp.stale_guard
          /\ ~resp.early_switch_suppressed

\* a stale young switch away from a track that is not near its end: both
\* guards' conditions hold and the stale guard answers
C21_Witness ==
    /\ EvStable200
    /\ ~EvPassesStaleGuard
    /\ EvYoungSwitch
    /\ ~EvPrevNearEnd
    /\ resp.stale_guard

\* C22: after a stable-mode poll whose upstream result is a 204 or a 200
\* with an object payload, the response's item, is_playing, progress_ms,
\* timestamp and source_status are those of the credential's entry as stored
\* right after the poll; a stable-mode response whose track differs from the
\* stored one comes from a transport error or a non-success result only.
C22_ServedEqualsStored ==
    /\ (EvUsable /\ ev.req.useStable) =>
          /\ EvStored # NoEntry
          /\ Reserves(EvStored)
    /\ (/\ EvPoll
        /\ ev.req.useStable
        /\ resp.shape = "state"
        /\ \/ EvStored = NoEntry
           \/ resp.item # EvStored.item) =>
          \/ ev.outcome.error
          \/ ev.outcome.status \notin {200, 204}
          \/ ev.outcome.body.kind # "object"

\* a suppressed switch: the response and the store both hold the previous
\* track while the upstream names another
C22_Witness ==
    /\ EvStable200
    /\ resp.early_switch_suppressed
    /\ Reserves(EvStored)
    /\ resp.item # ev.outcome.body.item

\* a transport error answered with the empty state while a track is stored
C22_ErrorDiffers ==
    /\ EvPoll
    /\ ev.req.useStable
    /\ ev.outcome.error
    /\ EvStored # NoEntry
    /\ resp.item # EvStored.item

(* ------------- one overlay polling in stable mode, for ever ------------ *)
\* number of long waits the clock makes
MaxWaits == 1

\* a wait as long as the longest track
LongWait == 200000
LastInstant == ClockAt(0) + MaxWaits * LongWait

\* the credential of the polling overlay
Overlay == "A"

\* what the upstream player reports while the overlay polls: three tracks
\* that get stored (playing, paused short of its end, without duration) and a
\* second track paused young, past 1200 ms, and with an older timestamp
PlayerBodies ==
    {ObjBody(Track(1, 200000), TRUE, 100000, 100000),
     ObjBody(Track(1, 200000), FALSE, 182500, 100000),
     ObjBody(Track(3, Absent), TRUE, 100000, 100000),
     ObjBody(Track(2, 200000), FALSE, 500, 100000),
     ObjBody(Track(2, 200000), TRUE, 1200, 99000),
     ObjBody(Track(2, 200000), FALSE, 500, 98500)}
Reports(b) == [error |-> FALSE, status |-> 200, body |-> b]
PlayerOutcomes == {Silent} \cup {Reports(b) : b \in PlayerBodies}

\* Date.now() after a long wait
LongWaitPasses ==
    /\ clock < LastInstant
    /\ clock' = clock + LongWait
    /\ UNCHANGED <<lastByToken, inflight, calls, answered, crashed, resp, ev,
                   oauth, upstream>>

\* the player changes what it reports; at the last instant only from silence
\* to a track, so that every stored track has been stored for a long wait or
\* is the track reported
UpstreamPlays(o) ==
    /\ o # upstream
    /\ clock < LastInstant \/ upstream = Silent
    /\ upstream' = o
    /\ UNCHANGED <<lastByToken, inflight, clock, calls, answered, crashed,
                   resp, ev, oauth>>

\* GET /now-playing?stable=1 from the overlay, one poll at a time, lines
\* 94-113; the poll counters of Spec stay as they are so that polling goes on
PollStart ==
    /\ ~crashed
    /\ inflight = EmptyBag
    /\ inflight' = SetToBag({Request(Overlay, "1", clock)})
    /\ resp' = NoResp
    /\ ev' = [kind |-> "start", stable |-> "1",
              req |-> Request(Overlay, "1", clock)]
    /\ UNCHANGED <<lastByToken, clock, calls, answered, crashed, oauth,
                   upstream>>

\* the upstream answers the poll r with what the player reports and the
\* callback runs, lines 113-192
PollReturns(r) ==
    /\ ~crashed
    /\ BagIn(r, inflight)
    /\ LET out == Callback(r, upstream, lastByToken)
       IN  /\ lastByToken' = out.store
           /\ crashed' = out.threw
           /\ resp' = out.resp
           /\ ev' = [kind |-> "poll", req |-> r, outcome |-> upstream,
                     before |-> lastByToken, read |-> out.read,
                     last |-> out.last, branch |-> out.branch]
    /\ inflight' = inflight (-) SetToBag({r})
    /\ UNCHANGED <<clock, calls, answered, oauth, upstream>>

PollNext ==
    \/ LongWaitPasses
    \/ \E o \in PlayerOutcomes : UpstreamPlays(o)
    \/ PollStart
    \/ \E r \in BagToSet(inflight) : PollReturns(r)

\* the clock advances, the overlay keeps polling, every upstream call ends
PollSpec ==
    /\ Init
    /\ [][PollNext]_vars
    /\ WF_vars(LongWaitPasses)
    /\ WF_vars(PollStart)
    /\ WF_vars(\E r \in BagToSet(inflight) : PollReturns(r))

OverlayEntry == EntryOf(lastByToken, Overlay)

\* the player reports b, the overlay's stored state names another track, and
\* b is not behind the stored timestamp by more than 1000 ms
SwitchPending(b) ==
    /\ upstream = Reports(b)
    /\ OverlayEntry # NoEntry
    /\ OverlayEntry.item # NullItem
    /\ b.item # NullItem
    /\ OverlayEntry.item.id # b.item.id
    /\ ~(b.timestamp + 1000 < OverlayEntry.timestamp)

\* C23: whatever track the stored state names, playing or paused, with or
\* without duration, while polls keep arriving, the clock advances and the
\* upstream keeps reporting one same different track with non-stale
\* timestamps, the switch does not stay pending for ever: some poll is
\* accepted and the stored state names the new track.
C23_SuppressionTemporary ==
    \A b \in PlayerBodies : []<>~SwitchPending(b)

\* the player reports b and b is more than 1000 ms behind the timestamp of
\* the overlay's stored state
StaleLocked(b) ==
    /\ upstream = Reports(b)
    /\ OverlayEntry # NoEntry
    /\ b.timestamp + 1000 < OverlayEntry.timestamp

\* C24: from every stored state, one written by a 204 included, while
\* stable-mode polls keep returning 200 samples whose timestamps do not
\* decrease, the sample does not stay behind the stored timestamp for ever:
\* some poll is accepted instead of every one being answered with stale_guard.
C24_StaleGuardReleases ==
    \A b \in PlayerBodies : []<>~StaleLocked(b)

====
